---- MODULE Spec2Model ----
(***************************************************************************)
(* The two batch scripts of the repository, statement by statement:        *)
(*   src/src/erp_and_tfr_figure.py  (script "erp": ERP + TFR difference)   *)
(*   src/src/tfr_mne_sample.py      (script "tfr": one-condition TFR)      *)
(* Each script is one sequential main(); pc is the statement about to run. *)
(* Sample buffers are not modelled in the pipeline specification: every    *)
(* object carries what the library call records about it (info, selection, *)
(* axes, trial count, baseline/mode), which is what the ordering, channel, *)
(* truncation and axis properties are about.  The numeric contrast of      *)
(* lines 64-70 is modelled on explicit small maps in SpecContrast.         *)
(* Frequencies are in Hz as exact rationals, times in microseconds.        *)
(***************************************************************************)
EXTENDS Integers, Sequences, FiniteSets, TLC

VARIABLES
    script,      \* which main() runs: "erp" or "tfr"
    pc,          \* the statement about to run, "done" or "failed"
    raw_file,    \* the recording on disk: [ch_names, sfreq]            (input)
    events,      \* event codes in file order                            (input)
    bad,         \* indices of events whose window is out of bounds or
                 \* overlaps a BAD annotation                            (input)
    raw,         \* <<>> or <<[info]>>
    epochs,      \* <<>> or <<Epochs>>
    ch,          \* <<>> or <<channel name>>
    epochs_c,    \* condition -> <<>> or <<Epochs>>   (epochs_L, epochs_R)
    evk,         \* condition -> <<>> or <<Evoked>>   (evk_L, evk_R)
    y,           \* condition -> <<>> or <<waveform>> (yL, yR)
    tfr,         \* condition -> <<>> or <<AverageTFR>> (tfr_L, tfr_R, power)
    diff,        \* <<>> or <<difference map descriptor>>
    fig,         \* <<>> or <<figure in memory>>
    results,     \* the directory "results": file name -> <<>> or <<content>>
    mapA, mapB,  \* SpecContrast: two normalized maps (flattened, row-major)
    contrast     \* SpecContrast: <<>> or <<both argument orders' results>>

vars == <<script, pc, raw_file, events, bad, raw, epochs, ch, epochs_c, evk, y,
          tfr, diff, fig, results, mapA, mapB, contrast>>

pipeVars == <<script, pc, raw_file, events, bad, raw, epochs, ch, epochs_c, evk,
              y, tfr, diff, fig, results>>

contrastVars == <<mapA, mapB, contrast>>

(***************************************************************************)
(* Bounds of the model.                                                    *)
(***************************************************************************)
\* events of one condition beyond the trial cap
MaxExtra == 1
\* the first MaxBad events may be dropped at segmentation
MaxBad == 2
\* cells of a flattened (freq x time) map in SpecContrast
MaxCells == 3

None == <<>>
Some(x) == <<x>>
Min(a, b) == IF a <= b THEN a ELSE b
Max(a, b) == IF a >= b THEN a ELSE b
\* round(a / b) for b > 0 (half away from zero; no half occurs in the model)
RoundDiv(a, b) == IF a >= 0 THEN (2 * a + b) \div (2 * b)
                  ELSE -((2 * (-a) + b) \div (2 * b))

(***************************************************************************)
(* Program constants.                                                      *)
(***************************************************************************)
LEFT == "Auditory/Left"
RIGHT == "Auditory/Right"
Conds == {LEFT, RIGHT}
Scripts == {"erp", "tfr"}

\* event_id: label -> code
event_id(s) == IF s = "erp" THEN (LEFT :> 1) @@ (RIGHT :> 2) ELSE (LEFT :> 1)

\* raw.filter(l_freq, h_freq), in tenths of a hertz
FilterBand(s) == IF s = "erp" THEN [l_freq |-> 5, h_freq |-> 400]
                 ELSE [l_freq |-> 10, h_freq |-> 400]

\* tmin, tmax of the epoch window and the baseline window, in milliseconds
EpochWindow == [tmin |-> -200, tmax |-> 800]
NoBaseline == <<>>
\* a plausible slip: baseline=None, no per-epoch correction
EpochsBaselineNone == NoBaseline
\* baseline=(-0.2, 0.0) of mne.Epochs
EpochsBaseline == <<-200, 0>>
TfrBaseline == <<-200, 0>>

\* the slice stop of epochs[...][:N]
TrialCapErp == 120
TrialCapTfr == 40
TrialCap(s) == IF s = "erp" THEN TrialCapErp ELSE TrialCapTfr

\* .resample(sfreq)
ResampleRate(s) == IF s = "erp" THEN 250 ELSE 200

preferred == "EEG 014"

Files == {"erp_tfr_figure.png", "erp_tfr_report.txt",
          "time_frequency_eeg.png", "run_report.txt"}
out_png(s) == IF s = "erp" THEN "erp_tfr_figure.png" ELSE "time_frequency_eeg.png"
report_path(s) == IF s = "erp" THEN "erp_tfr_report.txt" ELSE "run_report.txt"

(***************************************************************************)
(* numpy / Python helpers.                                                 *)
(***************************************************************************)
\* np.linspace(a, b, n): n exact rationals a + i (b - a) / (n - 1)
Linspace(a, b, n) ==
    [i \in 1..n |-> [num |-> a * (n - 1) + (i - 1) * (b - a), den |-> n - 1]]

\* freqs: np.linspace(4, 40, 50) and np.linspace(4, 30, 40)
Freqs(s) == IF s = "erp" THEN Linspace(4, 40, 50) ELSE Linspace(4, 30, 40)

\* a plausible slip: the same number of cycles for every frequency
NCyclesFixed(freqs) == [i \in 1..Len(freqs) |-> [num |-> 2, den |-> 1]]

\* n_cycles = freqs / 2.0
NCycles(freqs) ==
    [i \in 1..Len(freqs) |-> [num |-> freqs[i].num, den |-> 2 * freqs[i].den]]

\* a plausible slip: the last N (s[-stop:]) instead of the first N
PySliceLast(s, stop) == SubSeq(s, Len(s) - Min(stop, Len(s)) + 1, Len(s))

\* s[:stop]
PySlice(s, stop) ==
    LET n == Len(s)
        e == IF stop < 0 THEN Max(n + stop, 0) ELSE Min(stop, n)
    IN  [i \in 1..e |-> s[i]]

\* s[::decim]
Decimate(s, decim) ==
    [i \in 1..((Len(s) + decim - 1) \div decim) |-> s[(i - 1) * decim + 1]]

\* the time axis of n samples at sfreq Hz starting at first_us, in microseconds
TimeAxis(first_us, n, sfreq) ==
    [i \in 1..n |-> first_us + ((i - 1) * 1000000) \div sfreq]

(***************************************************************************)
(* What the inputs can be.                                                 *)
(***************************************************************************)
\* the EEG channels of the file, in file order (none: pick("eeg") raises)
ChannelLists == {<<>>, <<"EEG 001", "EEG 014">>, <<"EEG 002", "EEG 001">>}
\* 60 Hz puts the 40 Hz cutoff above Nyquist
RawSfreqs == {60, 1000}
\* how many events a condition has: none, one, or around the trial cap
Counts(cap) == {0, 1} \cup (cap .. (cap + MaxExtra))

\* nL events of code 1 and nR of code 2, alternating while both last
EventCodes(nL, nR) ==
    [i \in 1..(nL + nR) |->
        IF i <= 2 * Min(nL, nR) THEN (IF i % 2 = 1 THEN 1 ELSE 2)
        ELSE IF nL > nR THEN 1 ELSE 2]

NoneOf == [c \in Conds |-> None]

\* a plausible slip: the difference taken before tfr_R is normalized
OrderContrastEarly(s) ==
    IF s = "erp"
    THEN <<"read", "filter", "epochs", "pick_ch", "sel_L", "sel_R", "avg_L",
           "avg_R", "waveform", "tfr_L", "tfr_R", "base_L", "diff", "base_R",
           "savefig", "report", "done">>
    ELSE <<"read", "filter", "epochs", "trunc", "tfr_L", "pick_ch", "plot",
           "savefig", "report", "done">>

\* the statements of main(), in program order
Order(s) ==
    IF s = "erp"
    THEN <<"read", "filter", "epochs", "pick_ch", "sel_L", "sel_R", "avg_L",
           "avg_R", "waveform", "tfr_L", "tfr_R", "base_L", "base_R", "diff",
           "savefig", "report", "done">>
    ELSE <<"read", "filter", "epochs", "trunc", "tfr_L", "pick_ch", "plot",
           "savefig", "report", "done">>

\* the statement after p in main()
After(s, p) ==
    LET o == Order(s)
        i == CHOOSE k \in 1..(Len(o) - 1) : o[k] = p
    IN  o[i + 1]

Tag(c) == IF c = LEFT THEN "L" ELSE "R"
Step(stage, c) == stage \o "_" \o Tag(c)

Init ==
    /\ script \in Scripts
    /\ pc = "read"
    /\ \E names \in ChannelLists, sf \in RawSfreqs :
          raw_file = [ch_names |-> names, sfreq |-> sf,
                      highpass |-> 1, lowpass |-> Min(1722, 5 * sf)]
    /\ \E nL \in Counts(TrialCap(script)),
          nR \in (IF script = "erp" THEN Counts(TrialCap(script)) ELSE {0, 1}) :
          events = EventCodes(nL, nR)
    /\ bad \in SUBSET (1..Min(MaxBad, Len(events)))
    /\ raw = None
    /\ epochs = None
    /\ ch = None
    /\ epochs_c = NoneOf
    /\ evk = NoneOf
    /\ y = NoneOf
    /\ tfr = NoneOf
    /\ diff = None
    /\ fig = None
    /\ results = [f \in Files |-> None]
    /\ mapA = <<>>
    /\ mapB = <<>>
    /\ contrast = None

Abort == pc' = "failed"

(***************************************************************************)
(* The library calls the scripts make, by what they record on the object   *)
(* they return.                                                            *)
(***************************************************************************)
\* mne.io.read_raw_fif(...) then raw.pick("eeg")
ReadRawFif(file) ==
    [info |-> [ch_names |-> file.ch_names, sfreq |-> file.sfreq,
               highpass |-> file.highpass, lowpass |-> file.lowpass]]

\* raw.filter(l_freq, h_freq): the band is recorded in info
FilterRaw(r, band) ==
    [r EXCEPT !.info.highpass = Max(@, band.l_freq),
              !.info.lowpass = Min(@, band.h_freq)]

\* the indices of the events that become epochs, in file order: the code is
\* one of event_id's, the window is within the recording and overlaps no
\* BAD annotation (reject_by_annotation=True)
Selection(ids) ==
    SelectSeq([i \in 1..Len(events) |-> i],
              LAMBDA i : /\ \E l \in DOMAIN ids : events[i] = ids[l]
                         /\ i \notin bad)

\* mne.Epochs(raw, events, event_id, tmin, tmax, baseline, preload=True):
\* every epoch is baseline-corrected as it is loaded
MneEpochs(r, ids, baseline) ==
    LET sf == r.info.sfreq
        first == RoundDiv(EpochWindow.tmin * sf, 1000)
        last == RoundDiv(EpochWindow.tmax * sf, 1000)
        sel == Selection(ids)
    IN  [info |-> r.info,
         event_id |-> ids,
         baseline |-> baseline,
         items |-> [k \in 1..Len(sel) |->
                      [ev |-> sel[k],
                       nbase |-> IF baseline = NoBaseline THEN 0 ELSE 1]],
         times |-> TimeAxis((first * 1000000) \div sf, last - first + 1, sf)]

\* epochs.resample(sfreq): same tmin, new rate, new sample count
Resample(ep, sfreq) ==
    [ep EXCEPT !.info.sfreq = sfreq,
               !.info.lowpass = Min(@, 5 * sfreq),
               !.times = TimeAxis(ep.times[1],
                                  RoundDiv(Len(ep.times) * sfreq, ep.info.sfreq),
                                  sfreq)]

\* epochs[label]
GetItem(ep, label) ==
    [ep EXCEPT !.items =
        SelectSeq(@, LAMBDA e : events[e.ev] = ep.event_id[label])]

\* epochs[:stop]
Truncate(ep, stop) == [ep EXCEPT !.items = PySlice(@, stop)]

\* epochs.average(): an empty set gives an Evoked of nave 0 (NaN data) and a
\* warning, not an error
Average(ep) ==
    [nave |-> Len(ep.items), info |-> ep.info, times |-> ep.times,
     src |-> ep.items, baseline |-> ep.baseline, rebaselined |-> 0]

RECURSIVE Gcd(_, _)
Gcd(a, b) == IF b = 0 THEN a ELSE Gcd(b, a % b)

\* c / f in lowest terms: the wavelet's temporal support is proportional to it
CyclesPerHz(f, c) ==
    LET n == c.num * f.den
        d == c.den * f.num
        g == Gcd(n, d)
    IN  [num |-> n \div g, den |-> d \div g]

\* samples of the Morlet wavelet of c cycles at f Hz: t = arange(0, 5 sigma_t,
\* 1/sfreq) mirrored, sigma_t = c / (2 pi f); pi within 355/113
WaveletLen(f, c, sfreq) ==
    LET r == CyclesPerHz(f, c)
        num == 5 * r.num * sfreq * 113
        den == 2 * 355 * r.den
    IN  2 * ((num + den - 1) \div den) - 1

\* epochs.compute_tfr(method="morlet", freqs, n_cycles, return_itc=False,
\* average=True, decim): the power average over the epochs of the set
ComputeTfr(ep, freqs, n_cycles, decim) ==
    [info |-> ep.info, freqs |-> freqs, n_cycles |-> n_cycles,
     times |-> Decimate(ep.times, decim), nave |-> Len(ep.items),
     mode |-> "power", baseline |-> NoBaseline]

WaveletTooLong(ep, freqs, n_cycles) ==
    \E i \in 1..Len(freqs) :
        WaveletLen(freqs[i], n_cycles[i], ep.info.sfreq) > Len(ep.times)

\* tfr.apply_baseline(baseline, mode="logratio")
ApplyBaseline(t, baseline) == [t EXCEPT !.mode = "logratio", !.baseline = baseline]

\* a plausible slip: one of the two calls decimates
ErpDecimUneven(c) == IF c = RIGHT THEN 2 ELSE 1

\* decim=1 in both compute_tfr calls of the erp script
ErpDecim(c) == 1

\* decim=2 in the tfr script
TfrDecim == 2

\* numpy broadcasting of two 2-D shapes
Broadcastable(a, b) == \A k \in 1..2 : a[k] = b[k] \/ a[k] = 1 \/ b[k] = 1

(***************************************************************************)
(* The statements of main(), one action each.  An exception raised by a    *)
(* statement ends the run (pc = "failed"): neither script catches any.     *)
(***************************************************************************)
\* raw = mne.io.read_raw_fif(...); raw.pick("eeg")
ReadRaw ==
    /\ pc = "read"
    /\ IF raw_file.ch_names = <<>>
       THEN Abort /\ UNCHANGED raw
       ELSE /\ raw' = Some(ReadRawFif(raw_file))
            /\ pc' = After(script, pc)
    /\ UNCHANGED <<script, raw_file, events, bad, epochs, ch, epochs_c, evk, y,
                   tfr, diff, fig, results, contrastVars>>

\* raw.filter(l_freq, h_freq): a cutoff above Nyquist raises
Filter ==
    /\ pc = "filter"
    /\ IF 2 * FilterBand(script).h_freq > 10 * raw[1].info.sfreq
       THEN Abort /\ UNCHANGED raw
       ELSE /\ raw' = Some(FilterRaw(raw[1], FilterBand(script)))
            /\ pc' = After(script, pc)
    /\ UNCHANGED <<script, raw_file, events, bad, epochs, ch, epochs_c, evk, y,
                   tfr, diff, fig, results, contrastVars>>

\* every label of event_id has an event of its code in the event list
AllMatched(ids) ==
    {ids[l] : l \in DOMAIN ids} \subseteq {events[i] : i \in 1..Len(events)}

\* epochs = mne.Epochs(...) [.resample(250) in the erp script]: a label of
\* event_id with no event of its code raises (on_missing="raise"); what
\* resample does with an empty collection is the library's
MakeEpochs ==
    /\ pc = "epochs"
    /\ LET ids == event_id(script)
           ep == MneEpochs(raw[1], ids, EpochsBaseline)
       IN  \/ /\ ~AllMatched(ids)
              /\ Abort /\ UNCHANGED epochs
           \/ /\ AllMatched(ids)
              /\ script = "erp" /\ Len(ep.items) = 0
              /\ Abort /\ UNCHANGED epochs
           \/ /\ AllMatched(ids)
              /\ epochs' = Some(IF script = "erp"
                                THEN Resample(ep, ResampleRate(script)) ELSE ep)
              /\ pc' = After(script, pc)
    /\ UNCHANGED <<script, raw_file, events, bad, raw, ch, epochs_c, evk, y,
                   tfr, diff, fig, results, contrastVars>>

\* ch = preferred if preferred in epochs.ch_names else epochs.ch_names[0]
Erp_PickChannel ==
    /\ script = "erp" /\ pc = "pick_ch"
    /\ LET names == epochs[1].info.ch_names
       IN  ch' = Some(IF \E k \in 1..Len(names) : names[k] = preferred
                      THEN preferred ELSE names[1])
    /\ pc' = After(script, pc)
    /\ UNCHANGED <<script, raw_file, events, bad, raw, epochs, epochs_c, evk, y,
                   tfr, diff, fig, results, contrastVars>>

\* epochs_L = epochs["Auditory/Left"][:120]; epochs_R likewise
Erp_Select(c) ==
    /\ script = "erp" /\ pc = Step("sel", c)
    /\ epochs_c' = [epochs_c EXCEPT
                      ![c] = Some(Truncate(GetItem(epochs[1], c), TrialCapErp))]
    /\ pc' = After(script, pc)
    /\ UNCHANGED <<script, raw_file, events, bad, raw, epochs, ch, evk, y,
                   tfr, diff, fig, results, contrastVars>>

\* evk_L = epochs_L.average(); evk_R likewise
Erp_Average(c) ==
    /\ script = "erp" /\ pc = Step("avg", c)
    /\ evk' = [evk EXCEPT ![c] = Some(Average(epochs_c[c][1]))]
    /\ pc' = After(script, pc)
    /\ UNCHANGED <<script, raw_file, events, bad, raw, epochs, ch, epochs_c, y,
                   tfr, diff, fig, results, contrastVars>>

\* t = evk_L.times; yL = evk_L.copy().pick(ch).data[0] * 1e6; yR likewise
Erp_Waveform ==
    /\ script = "erp" /\ pc = "waveform"
    /\ y' = [c \in Conds |-> Some([ch |-> ch[1], nave |-> evk[c][1].nave,
                                    t |-> evk[LEFT][1].times])]
    /\ pc' = After(script, pc)
    /\ UNCHANGED <<script, raw_file, events, bad, raw, epochs, ch, epochs_c, evk,
                   tfr, diff, fig, results, contrastVars>>

\* tfr_L = epochs_L.compute_tfr(...); tfr_R likewise.  A wavelet longer than
\* the epoch raises; what the call does with an empty set is the library's
Erp_ComputeTfr(c) ==
    /\ script = "erp" /\ pc = Step("tfr", c)
    /\ LET ep == epochs_c[c][1]
           freqs == Freqs(script)
           n_cycles == NCycles(freqs)
       IN  \/ /\ WaveletTooLong(ep, freqs, n_cycles) \/ Len(ep.items) = 0
              /\ Abort /\ UNCHANGED tfr
           \/ /\ ~WaveletTooLong(ep, freqs, n_cycles)
              /\ tfr' = [tfr EXCEPT
                           ![c] = Some(ComputeTfr(ep, freqs, n_cycles, ErpDecim(c)))]
              /\ pc' = After(script, pc)
    /\ UNCHANGED <<script, raw_file, events, bad, raw, epochs, ch, epochs_c, evk,
                   y, diff, fig, results, contrastVars>>

\* tfr_L.apply_baseline(baseline=baseline, mode="logratio"); tfr_R likewise
Erp_ApplyBaseline(c) ==
    /\ script = "erp" /\ pc = Step("base", c)
    /\ tfr' = [tfr EXCEPT ![c] = Some(ApplyBaseline(tfr[c][1], TfrBaseline))]
    /\ pc' = After(script, pc)
    /\ UNCHANGED <<script, raw_file, events, bad, raw, epochs, ch, epochs_c, evk,
                   y, diff, fig, results, contrastVars>>

\* tfr_L_ch = tfr_L.copy().pick(ch); tfr_R_ch likewise;
\* diff = tfr_R_ch.data[0] - tfr_L_ch.data[0]; tf_times, tf_freqs = tfr_L's;
\* vmax, vmin from the 98th percentile of |diff|
Erp_Diff ==
    /\ script = "erp" /\ pc = "diff"
    /\ LET a == tfr[RIGHT][1]
           b == tfr[LEFT][1]
           sa == <<Len(a.freqs), Len(a.times)>>
           sb == <<Len(b.freqs), Len(b.times)>>
       IN  IF Broadcastable(sa, sb)
           THEN /\ diff' = Some([minuend |-> RIGHT, subtrahend |-> LEFT,
                                 ch |-> <<ch[1], ch[1]>>,
                                 modes |-> <<a.mode, b.mode>>,
                                 naves |-> <<a.nave, b.nave>>,
                                 freqs |-> <<a.freqs, b.freqs>>,
                                 times |-> <<a.times, b.times>>,
                                 tf_times |-> b.times, tf_freqs |-> b.freqs])
                /\ pc' = After(script, pc)
           ELSE Abort /\ UNCHANGED diff
    /\ UNCHANGED <<script, raw_file, events, bad, raw, epochs, ch, epochs_c, evk,
                   y, tfr, fig, results, contrastVars>>

\* epochs = epochs[:40].resample(200)
Tfr_Trunc ==
    /\ script = "tfr" /\ pc = "trunc"
    /\ LET ep == Truncate(epochs[1], TrialCapTfr)
       IN  \/ /\ Len(ep.items) = 0
              /\ Abort /\ UNCHANGED epochs
           \/ /\ epochs' = Some(Resample(ep, ResampleRate(script)))
              /\ pc' = After(script, pc)
    /\ UNCHANGED <<script, raw_file, events, bad, raw, ch, epochs_c, evk, y,
                   tfr, diff, fig, results, contrastVars>>

\* power = epochs.compute_tfr(..., decim=2)
Tfr_ComputeTfr ==
    /\ script = "tfr" /\ pc = "tfr_L"
    /\ LET ep == epochs[1]
           freqs == Freqs(script)
           n_cycles == NCycles(freqs)
       IN  \/ /\ WaveletTooLong(ep, freqs, n_cycles) \/ Len(ep.items) = 0
              /\ Abort /\ UNCHANGED tfr
           \/ /\ ~WaveletTooLong(ep, freqs, n_cycles)
              /\ tfr' = [tfr EXCEPT
                           ![LEFT] = Some(ComputeTfr(ep, freqs, n_cycles, TfrDecim))]
              /\ pc' = After(script, pc)
    /\ UNCHANGED <<script, raw_file, events, bad, raw, epochs, ch, epochs_c, evk,
                   y, diff, fig, results, contrastVars>>

\* ch_name = power.ch_names[0]; power_ch = power.copy().pick(ch_name)
Tfr_PickChannel ==
    /\ script = "tfr" /\ pc = "pick_ch"
    /\ ch' = Some(tfr[LEFT][1].info.ch_names[1])
    /\ pc' = After(script, pc)
    /\ UNCHANGED <<script, raw_file, events, bad, raw, epochs, epochs_c, evk, y,
                   tfr, diff, fig, results, contrastVars>>

\* figs = power_ch.plot(baseline=(-0.2, 0.0), mode="logratio", ...): the
\* plotted copy is normalized, power itself is not
Tfr_Plot ==
    /\ script = "tfr" /\ pc = "plot"
    /\ fig' = Some([ch |-> ch[1],
                    modes |-> <<ApplyBaseline(tfr[LEFT][1], TfrBaseline).mode>>])
    /\ pc' = After(script, pc)
    /\ UNCHANGED <<script, raw_file, events, bad, raw, epochs, ch, epochs_c, evk,
                   y, tfr, diff, results, contrastVars>>

\* the figure of the erp script: the two waveforms and the difference map
ErpFigure == [ch |-> ch[1], modes |-> diff[1].modes]

\* fig.savefig(out_png, ...); plt.close(fig): the write can fail (OSError)
SaveFig ==
    /\ pc = "savefig"
    /\ LET f == IF script = "erp" THEN ErpFigure ELSE fig[1]
       IN  \/ /\ results' = [results EXCEPT ![out_png(script)] = Some(f)]
              /\ fig' = Some(f)
              /\ pc' = After(script, pc)
           \/ Abort /\ UNCHANGED <<results, fig>>
    /\ UNCHANGED <<script, raw_file, events, bad, raw, epochs, ch, epochs_c, evk,
                   y, tfr, diff, contrastVars>>

\* the lines f.write(...) writes, in order
ReportLines ==
    IF script = "erp"
    THEN <<[key |-> "title", value |-> <<"ERP + TFR figure">>],
           [key |-> "Channel", value |-> <<ch[1]>>],
           [key |-> "Epochs L/R", value |-> <<Len(epochs_c[LEFT][1].items),
                                              Len(epochs_c[RIGHT][1].items)>>],
           [key |-> "Outputs", value |-> <<"results/erp_tfr_figure.png",
                                           "results/erp_tfr_report.txt">>]>>
    ELSE <<[key |-> "title",
            value |-> <<"EEG Time-Frequency mini-pipeline (MNE sample)">>],
           [key |-> "Epochs used", value |-> <<Len(epochs[1].items)>>],
           [key |-> "Channel", value |-> <<ch[1]>>],
           [key |-> "Freq range",
            value |-> <<Freqs(script)[1], Freqs(script)[Len(Freqs(script))]>>],
           [key |-> "Saved figure", value |-> <<"results/time_frequency_eeg.png">>]>>

\* with open(report, "w") as f: f.write(...) ...: open can fail (nothing
\* written), a write can fail (the file keeps the lines before it)
Report ==
    /\ pc = "report"
    /\ \/ Abort /\ UNCHANGED results
       \/ \E k \in 0..(Len(ReportLines) - 1) :
             /\ results' = [results EXCEPT
                              ![report_path(script)] = Some(SubSeq(ReportLines, 1, k))]
             /\ Abort
       \/ /\ results' = [results EXCEPT ![report_path(script)] = Some(ReportLines)]
          /\ pc' = After(script, pc)
    /\ UNCHANGED <<script, raw_file, events, bad, raw, epochs, ch, epochs_c, evk,
                   y, tfr, diff, fig, contrastVars>>

Next ==
    \/ ReadRaw
    \/ Filter
    \/ MakeEpochs
    \/ Erp_PickChannel
    \/ \E c \in Conds : Erp_Select(c)
    \/ \E c \in Conds : Erp_Average(c)
    \/ Erp_Waveform
    \/ \E c \in Conds : Erp_ComputeTfr(c)
    \/ \E c \in Conds : Erp_ApplyBaseline(c)
    \/ Erp_Diff
    \/ Tfr_Trunc
    \/ Tfr_ComputeTfr
    \/ Tfr_PickChannel
    \/ Tfr_Plot
    \/ SaveFig
    \/ Report

Spec == Init /\ [][Next]_vars

(***************************************************************************)
(* The contrast of lines 64-70 on explicit maps.  A map is data[0] of one  *)
(* picked channel, flattened row-major; a cell is a float: NaN or a finite *)
(* value (log-ratios, here integers).  NaN is one value: equality of cells *)
(* is numpy.array_equal(..., equal_nan=True).                              *)
(***************************************************************************)
NaN == [nan |-> TRUE, v |-> 0]
F(v) == [nan |-> FALSE, v |-> v]
FiniteVals == {-1, 0, 2}
Cells == {NaN} \cup {F(v) : v \in FiniteVals}

\* a - b, -a and |a| on floats
Sub(a, b) == IF a.nan \/ b.nan THEN NaN ELSE F(a.v - b.v)
Neg(a) == IF a.nan THEN NaN ELSE F(-a.v)
Abs(a) == IF a.nan THEN NaN ELSE F(IF a.v < 0 THEN -a.v ELSE a.v)

\* diff = first.data[0] - second.data[0]  (the script: first = R, second = L)
Contrast(first, second) == [i \in 1..Len(first) |-> Sub(first[i], second[i])]

\* np.nanpercentile(a, 98): NaNs dropped, then linear interpolation between
\* the order statistics around rank (n - 1) * 0.98; all-NaN gives NaN.
\* The value is num / 100.
NanPercentile98(a) ==
    LET fin == SelectSeq(a, LAMBDA x : ~x.nan)
        n == Len(fin)
        sorted == SortSeq([i \in 1..n |-> fin[i].v], LAMBDA p, q : p < q)
        lo == ((n - 1) * 98) \div 100
        g == ((n - 1) * 98) % 100
        hi == Min(lo + 1, n - 1)
    IN  IF n = 0 THEN [nan |-> TRUE, num |-> 0]
        ELSE [nan |-> FALSE,
              num |-> sorted[lo + 1] * (100 - g) + sorted[hi + 1] * g]

\* a plausible slip: the percentile of the signed differences
DisplayRangeSigned(d) ==
    LET vmax == NanPercentile98(d)
    IN  [vmin |-> [vmax EXCEPT !.num = -@], vmax |-> vmax]

\* vmax = np.nanpercentile(np.abs(diff), 98); vmin = -vmax
DisplayRange(d) ==
    LET vmax == NanPercentile98([i \in 1..Len(d) |-> Abs(d[i])])
    IN  [vmin |-> [vmax EXCEPT !.num = -@], vmax |-> vmax]

InitContrast ==
    /\ \E n \in 1..MaxCells :
          /\ mapA \in [1..n -> Cells]
          /\ mapB \in [1..n -> Cells]
    /\ contrast = None
    /\ script = "erp"
    /\ pc = "diff"
    /\ raw_file = [ch_names |-> <<>>, sfreq |-> 0, highpass |-> 0, lowpass |-> 0]
    /\ events = <<>>
    /\ bad = {}
    /\ raw = None
    /\ epochs = None
    /\ ch = None
    /\ epochs_c = NoneOf
    /\ evk = NoneOf
    /\ y = NoneOf
    /\ tfr = NoneOf
    /\ diff = None
    /\ fig = None
    /\ results = [f \in Files |-> None]

\* the contrast and its display range, for both argument orders
ContrastBoth ==
    /\ contrast = None
    /\ contrast' = Some([ab |-> Contrast(mapA, mapB),
                         ba |-> Contrast(mapB, mapA),
                         range_ab |-> DisplayRange(Contrast(mapA, mapB)),
                         range_ba |-> DisplayRange(Contrast(mapB, mapA))])
    /\ UNCHANGED <<mapA, mapB, pipeVars>>

SpecContrast == InitContrast /\ [][ContrastBoth]_vars

(***************************************************************************)
(* Properties.                                                             *)
(***************************************************************************)
\* the events of condition c that survive segmentation, from the inputs
Survivors(c) ==
    {i \in 1..Len(events) : events[i] = event_id(script)[c] /\ i \notin bad}

\* used is the first Min(cap, S) survivors of c, in extraction order: it
\* starts at the earliest survivor and skips none
FirstN(used, c, cap) ==
    LET surv == Survivors(c)
    IN  /\ Len(used) = Min(cap, Cardinality(surv))
        /\ \A k \in 1..Len(used) : used[k].ev \in surv
        /\ Len(used) > 0 => \A j \in surv : used[1].ev <= j
        /\ \A k \in 1..(Len(used) - 1) :
              /\ used[k].ev < used[k + 1].ev
              /\ \A j \in surv : ~(used[k].ev < j /\ j < used[k + 1].ev)

Complete(f) == results[f] # None /\ Len(results[f][1]) = Len(ReportLines)

\* C1: every stage runs on the completed output of the stages it depends on:
\* the epochs are cut from the filtered recording, averages and transforms
\* come from the segmented (and selected) epochs, normalization acts on a
\* computed transform, and the difference (or the plotted map) is taken of
\* normalized maps only.
C1_StagesInDependencyOrder ==
    /\ epochs # None =>
          /\ raw # None
          /\ epochs[1].info.highpass = FilterBand(script).l_freq
          /\ epochs[1].info.lowpass <= FilterBand(script).h_freq
    /\ \A c \in Conds :
          /\ epochs_c[c] # None => epochs # None
          /\ evk[c] # None =>
                epochs_c[c] # None /\ evk[c][1].src = epochs_c[c][1].items
          /\ tfr[c] # None =>
                LET ep == IF script = "erp" THEN epochs_c[c] ELSE epochs
                IN  /\ ep # None
                    /\ tfr[c][1].nave = Len(ep[1].items)
                    /\ tfr[c][1].info = ep[1].info
    /\ diff # None =>
          /\ tfr[LEFT] # None /\ tfr[RIGHT] # None
          /\ diff[1].modes = <<"logratio", "logratio">>
    /\ (script = "tfr" /\ fig # None) =>
          tfr[LEFT] # None /\ fig[1].modes = <<"logratio">>

C1_Witness ==
    /\ script = "erp" /\ pc = "done" /\ diff # None
    /\ evk[LEFT] # None /\ evk[RIGHT] # None

\* C2: every epoch that contributes to an evoked average was baseline-
\* corrected exactly once before the average was taken, and the average
\* itself is never baseline-corrected.
C2_BaselineOncePerTrialBeforeAveraging ==
    \A c \in Conds :
        evk[c] # None =>
            /\ \A k \in 1..Len(evk[c][1].src) : evk[c][1].src[k].nbase = 1
            /\ evk[c][1].nave = Len(evk[c][1].src)
            /\ evk[c][1].rebaselined = 0

C2_Witness ==
    /\ pc = "done"
    /\ evk[LEFT] # None /\ evk[LEFT][1].nave = TrialCapErp
    /\ evk[RIGHT] # None /\ evk[RIGHT][1].nave = 1

\* C3: contrast(A, B) is the element-wise negation of contrast(B, A), and
\* the display range (vmin, vmax) is the same for both argument orders, with
\* vmin = -vmax.
C3_ContrastAntisymmetric ==
    contrast # None =>
        LET r == contrast[1]
        IN  /\ Len(r.ab) = Len(r.ba)
            /\ \A i \in 1..Len(r.ab) : r.ab[i] = Neg(r.ba[i])
            /\ r.range_ab = r.range_ba
            /\ r.range_ab.vmin.nan = r.range_ab.vmax.nan
            /\ r.range_ab.vmin.num = -r.range_ab.vmax.num

C3_Witness ==
    /\ contrast # None
    /\ \E i \in 1..Len(mapA) : contrast[1].ab[i].nan
    /\ \E i, j \in 1..Len(mapA) :
          /\ ~contrast[1].ab[i].nan /\ contrast[1].ab[i].v > 0
          /\ ~contrast[1].ab[j].nan /\ contrast[1].ab[j].v < 0
    /\ contrast[1].range_ab.vmax.num > 0

\* C4: a run that fails leaves no output artifact behind: neither the
\* figure file nor the report file exists as a result of it.
C4_FailedRunLeavesNoArtifact ==
    pc = "failed" => \A f \in Files : results[f] = None

\* C5: a requested condition with zero surviving epochs gets no evoked
\* average: the run fails before one is produced.
C5_EmptyConditionFails ==
    \A c \in DOMAIN event_id(script) :
        Survivors(c) = {} => evk[c] = None

\* the channel the documented policy selects
PolicyChannel ==
    LET names == raw_file.ch_names
    IN  IF \E k \in 1..Len(names) : names[k] = preferred
        THEN preferred ELSE names[1]

\* the erp script uses the policy's channel for the waveforms and both maps
ChannelPolicyFollowed ==
    (script = "erp" /\ diff # None) =>
        /\ ch[1] = PolicyChannel
        /\ \A c \in Conds : y[c][1].ch = ch[1]
        /\ diff[1].ch = <<ch[1], ch[1]>>

\* C6: the channel is the named one when present and the first one
\* otherwise, the same for the waveforms and both maps, and the report of a
\* completed run says whether the fallback was taken.
C6_FallbackSurfaced ==
    /\ ChannelPolicyFollowed
    /\ pc = "done" =>
          \E k \in 1..Len(results[report_path(script)][1]) :
              results[report_path(script)][1][k].key = "Fallback"

C9_FirstNTruncation ==
    /\ script = "erp" =>
          \A c \in Conds :
              /\ epochs_c[c] # None =>
                    FirstN(epochs_c[c][1].items, c, TrialCapErp)
              /\ evk[c] # None =>
                    /\ FirstN(evk[c][1].src, c, TrialCapErp)
                    /\ evk[c][1].nave = Min(TrialCapErp, Cardinality(Survivors(c)))
              /\ tfr[c] # None =>
                    tfr[c][1].nave = Min(TrialCapErp, Cardinality(Survivors(c)))
    /\ (script = "erp" /\ Complete(report_path(script))) =>
          results[report_path(script)][1][3].value =
              <<Min(TrialCapErp, Cardinality(Survivors(LEFT))),
                Min(TrialCapErp, Cardinality(Survivors(RIGHT)))>>
    /\ (script = "tfr" /\ tfr[LEFT] # None) =>
          /\ FirstN(epochs[1].items, LEFT, TrialCapTfr)
          /\ tfr[LEFT][1].nave = Min(TrialCapTfr, Cardinality(Survivors(LEFT)))
    /\ (script = "tfr" /\ Complete(report_path(script))) =>
          results[report_path(script)][1][2].value =
              <<Min(TrialCapTfr, Cardinality(Survivors(LEFT)))>>

C9_Witness ==
    /\ script = "erp" /\ pc = "done"
    /\ Cardinality(Survivors(LEFT)) > TrialCapErp
    /\ Cardinality(Survivors(RIGHT)) < TrialCapErp
    /\ bad # {}
    /\ results[report_path(script)][1][3].value
          = <<TrialCapErp, Cardinality(Survivors(RIGHT))>>

\* C10: the two maps that are contrasted have the same frequency axis and
\* the same time axis (length and values), whatever the two trial counts.
C10_ContrastedMapsShareAxes ==
    /\ (tfr[LEFT] # None /\ tfr[RIGHT] # None) =>
          /\ tfr[LEFT][1].freqs = tfr[RIGHT][1].freqs
          /\ tfr[LEFT][1].times = tfr[RIGHT][1].times
    /\ diff # None =>
          /\ diff[1].freqs[1] = diff[1].freqs[2]
          /\ diff[1].times[1] = diff[1].times[2]
          /\ diff[1].tf_times = diff[1].times[1]
          /\ diff[1].tf_freqs = diff[1].freqs[1]

C10_Witness ==
    /\ diff # None
    /\ diff[1].naves[1] # diff[1].naves[2]
    /\ Len(diff[1].times[1]) = 250
    /\ Len(diff[1].freqs[1]) = 50

====
